---- MODULE Spec2Model ----
(***************************************************************************)
(* A model of converter.py: the Postman-collection to Dio/Dart generator.  *)
(*                                                                         *)
(* Text is modelled as a sequence of one-character strings, so that the    *)
(* regular expressions, str.replace, str.title and friends are computed    *)
(* as Python computes them.  A generated class text is the sequence of the *)
(* chunks the code appends to class_code ('' is the empty sequence); a     *)
(* generated function text is a record of the parts the template fills.    *)
(***************************************************************************)
EXTENDS Integers, Sequences, FiniteSets, TLC

VARIABLES
    call,        \* pure-function runs: the function called and its arguments
    ret,         \* pure-function runs: the results of the executions so far
    collection,  \* walker: the loaded collection (collection['item'])
    pos,         \* walker: number of leaf entries already visited
    status,      \* walker: "init" | "walking" | "done" | "crashed" | "idle"
    dirs,        \* walker: directories that exist
    files,       \* walker: file system, path -> content
    calls,       \* walker: the generate_dio_function invocations, in order
    writes       \* walker: per visited leaf, the set of paths it wrote

vars == <<call, ret, collection, pos, status, dirs, files, calls, writes>>

----------------------------------------------------------------------------
(* Characters and character classes.                                       *)

Lowers == <<"a","b","c","d","e","f","g","h","i","j","k","l","m",
            "n","o","p","q","r","s","t","u","v","w","x","y","z">>

Uppers == <<"A","B","C","D","E","F","G","H","I","J","K","L","M",
            "N","O","P","Q","R","S","T","U","V","W","X","Y","Z">>

DigitChars == <<"0","1","2","3","4","5","6","7","8","9">>

LowerSet == {Lowers[i] : i \in 1..Len(Lowers)}

UpperSet == {Uppers[i] : i \in 1..Len(Uppers)}

DigitSet == {DigitChars[i] : i \in 1..Len(DigitChars)}

HexChars == {"a","b","c","d","e","f"} \cup DigitSet

LowerOf == [c \in UpperSet |-> Lowers[CHOOSE i \in 1..Len(Uppers) : Uppers[i] = c]]

UpperOf == [c \in LowerSet |-> Uppers[CHOOSE i \in 1..Len(Lowers) : Lowers[i] = c]]

IsDigit(c) == c \in DigitSet

IsLetter(c) == c \in LowerSet \/ c \in UpperSet

\* [a-zA-Z0-9]: a regex word character other than the underscore
IsAlnum(c) == IsLetter(c) \/ IsDigit(c)

ToLower(c) == IF c \in UpperSet THEN LowerOf[c] ELSE c

ToUpper(c) == IF c \in LowerSet THEN UpperOf[c] ELSE c

\* str.lower()
Lower(s) == [i \in 1..Len(s) |-> ToLower(s[i])]

\* str(i) for the small non-negative integers the model uses
IntToStr(i) == <<DigitChars[i + 1]>>

Min(S) == CHOOSE x \in S : \A y \in S : x <= y

RECURSIVE Concat(_)
\* ''.join(parts)
Concat(parts) == IF parts = <<>> THEN <<>> ELSE Head(parts) \o Concat(Tail(parts))

RECURSIVE JoinWith(_, _)
\* sep.join(parts)
JoinWith(sep, parts) ==
    IF parts = <<>> THEN <<>>
    ELSE IF Len(parts) = 1 THEN parts[1]
    ELSE parts[1] \o sep \o JoinWith(sep, Tail(parts))

\* s[i:i+len(t)] == t
MatchAt(s, i, t) == i + Len(t) - 1 <= Len(s) /\ SubSeq(s, i, i + Len(t) - 1) = t

\* s.find(t, i): the least j >= i where t occurs in s, or 0
FirstMatch(s, i, t) ==
    LET hits == {j \in i..(Len(s) - Len(t) + 1) : MatchAt(s, j, t)}
    IN  IF hits = {} THEN 0 ELSE Min(hits)

\* t in s
Contains(s, t) == FirstMatch(s, 1, t) # 0

RECURSIVE Replace(_, _, _)
\* str.replace(old, new) for non-empty old: every non-overlapping occurrence,
\* scanning left to right
Replace(s, old, new) ==
    LET j == FirstMatch(s, 1, old)
    IN  IF j = 0 THEN s
        ELSE SubSeq(s, 1, j - 1) \o new \o Replace(SubSeq(s, j + Len(old), Len(s)), old, new)

RECURSIVE SplitWs(_)
\* str.split(): the maximal runs of non-whitespace characters
SplitWs(s) ==
    LET starts == {i \in 1..Len(s) : s[i] # " "}
    IN  IF starts = {} THEN <<>>
        ELSE LET a == Min(starts)
                 b == IF FirstMatch(s, a, <<" ">>) = 0 THEN Len(s) + 1
                      ELSE FirstMatch(s, a, <<" ">>)
             IN  <<SubSeq(s, a, b - 1)>> \o SplitWs(SubSeq(s, b, Len(s)))

\* str.title(): a letter is upper-cased after a non-letter, lower-cased after a letter
Title(w) ==
    [i \in 1..Len(w) |-> IF i > 1 /\ IsLetter(w[i - 1]) THEN ToLower(w[i]) ELSE ToUpper(w[i])]

----------------------------------------------------------------------------
(* Name-casing utilities.                                                  *)

\* re.sub(r'[\W_]+', ' ', name): a run of non-alphanumerics becomes one space
CollapseNonWord(s) ==
    LET kept == SelectSeq([i \in 1..Len(s) |-> i],
                          LAMBDA i : IsAlnum(s[i]) \/ i = 1 \/ IsAlnum(s[i - 1]))
    IN  [k \in 1..Len(kept) |-> IF IsAlnum(s[kept[k]]) THEN s[kept[k]] ELSE " "]

snake_case(name) == JoinWith(<<"_">>, SplitWs(Lower(CollapseNonWord(name))))

TitleWords(name) == Concat([i \in 1..Len(SplitWs(name)) |-> Title(SplitWs(name)[i])])

upper_camel_case(name) == Replace(TitleWords(name), <<"_">>, <<>>)

\* name[0] of an all-whitespace name raises IndexError; no modelled name is one
lower_camel_case(name) ==
    IF name = <<>> THEN name
    ELSE LET n == TitleWords(name)
         IN  Replace(<<ToLower(n[1])>> \o Tail(n), <<"_">>, <<>>)

----------------------------------------------------------------------------
(* Placeholder utilities.                                                  *)

RECURSIVE extract_variables(_)
\* re.findall(r'\{\{(.*?)\}\}', text): a match opens at the first '{{' that has a
\* '}}' after it and closes at the nearest one; the scan resumes after the match
extract_variables(text) ==
    LET opens == {i \in 1..Len(text) :
                    MatchAt(text, i, <<"{", "{">>) /\ FirstMatch(text, i + 2, <<"}", "}">>) # 0}
    IN  IF opens = {} THEN <<>>
        ELSE LET a == Min(opens)
                 c == FirstMatch(text, a + 2, <<"}", "}">>)
             IN  <<SubSeq(text, a + 2, c - 1)>>
                 \o extract_variables(SubSeq(text, c + 2, Len(text)))

----------------------------------------------------------------------------
(* Path-parameter inference.                                               *)

HexMinLen == 24

\* re.match(r'^[a-f0-9]{24,}$', segment)
IsHexId(segment) ==
    Len(segment) >= HexMinLen /\ \A i \in 1..Len(segment) : segment[i] \in HexChars

\* re.match(r'^\d+$', segment); also str.isdigit()
IsAllDigits(segment) ==
    Len(segment) >= 1 /\ \A i \in 1..Len(segment) : IsDigit(segment[i])

\* 'id' if i == len(path) - 1 else f"param{i}", i counted from 0
ParamName(i, n) ==
    IF i = n - 1 THEN <<"i", "d">> ELSE <<"p", "a", "r", "a", "m">> \o IntToStr(i)

\* updated_url.replace(segment, f"${param_name}")
ReplaceSegment(updated_url, segment, param_name) ==
    Replace(updated_url, segment, <<"$">> \o param_name)

RECURSIVE PathLoop(_, _, _, _)
PathLoop(path, i, updated_url, path_variables) ==
    IF i >= Len(path) THEN [updated_url |-> updated_url, path_variables |-> path_variables]
    ELSE LET segment == path[i + 1]
             param_name == ParamName(i, Len(path))
         IN  IF IsHexId(segment) \/ IsAllDigits(segment)
             THEN PathLoop(path, i + 1,
                           ReplaceSegment(updated_url, segment, param_name),
                           Append(path_variables, lower_camel_case(param_name)))
             ELSE PathLoop(path, i + 1, updated_url, path_variables)

handle_path_parameters(url, path) == PathLoop(path, 0, url, <<>>)

----------------------------------------------------------------------------
(* JSON values, mappings and documents.                                    *)
(*                                                                         *)
(* A value is [t, s]: t its Python type after json.loads ("list", "bool",  *)
(* "int", "float", "str", "null", "dict"), s the text of a "str" value.    *)
(* A mapping (a Python dict) is a sequence of <<key, value>> with distinct *)
(* keys, in insertion order.  A raw JSON text is the document it spells:   *)
(* [kind, pairs] with kind "empty" (''), "invalid" (not JSON), "object"    *)
(* (pairs: its members in source order, keys may repeat) or "other" (an    *)
(* array or scalar document).                                              *)

Val(t, s) == [t |-> t, s |-> s]

Keys(d) == [i \in 1..Len(d) |-> d[i][1]]

HasKey(d, k) == \E i \in 1..Len(d) : d[i][1] = k

\* d[k] = v: an existing key keeps its position, a new one goes last
DictSet(d, k, v) ==
    IF HasKey(d, k)
    THEN [i \in 1..Len(d) |-> IF d[i][1] = k THEN <<k, v>> ELSE d[i]]
    ELSE Append(d, <<k, v>>)

RECURSIVE DictFromPairs(_)
\* a dict built pair by pair: json.loads of an object, and the comprehension
\* {param['key']: param['value'] for param in query}
DictFromPairs(pairs) ==
    IF pairs = <<>> THEN <<>>
    ELSE DictSet(DictFromPairs(SubSeq(pairs, 1, Len(pairs) - 1)),
                 pairs[Len(pairs)][1], pairs[Len(pairs)][2])

\* d.pop(k) for every key k == ''
PopEmptyKeys(d) == SelectSeq(d, LAMBDA kv : kv[1] # <<>>)

----------------------------------------------------------------------------
(* Type-inference class generators.                                        *)

\* one chunk appended to class_code
Chunk(kind, type, name, keys) == [kind |-> kind, type |-> type, name |-> name, keys |-> keys]

\* value.replace('.', '').isdigit()
IsDottedDigits(s) == IsAllDigits(Replace(s, <<".">>, <<>>))

\* the isinstance chain of both generators
DartType(value) ==
    IF value.t = "list" THEN "final List<dynamic>?"
    ELSE IF value.t = "bool" THEN "final bool?"
    ELSE IF value.t = "int" THEN "final int?"
    ELSE IF value.t = "float" THEN "final double?"
    ELSE IF value.t = "str" THEN
        IF value.s = <<"t","r","u","e">> \/ value.s = <<"f","a","l","s","e">>
        THEN "final bool?"
        ELSE IF IsAllDigits(value.s) THEN "final int?"
        ELSE IF IsDottedDigits(value.s) THEN "final double?"
        ELSE "final String?"
    ELSE "dynamic"

FieldChunks(d) == [i \in 1..Len(d) |-> Chunk("field", DartType(d[i][2]), d[i][1], <<>>)]

EntryChunks(keys) == [i \in 1..Len(keys) |-> Chunk("entry", "", keys[i], <<>>)]

\* header, fields, constructor, serialization method, closing brace
ClassCode(class_name, fields, ctor_keys, method, entry_keys) ==
    <<Chunk("class", "", class_name, <<>>)>>
    \o fields
    \o <<Chunk("ctor", "", class_name, ctor_keys), Chunk(method, "", <<>>, <<>>)>>
    \o EntryChunks(entry_keys)
    \o <<Chunk("end", "", <<>>, <<>>)>>

\* query_content is query_params itself: the pops are seen by the caller, so the
\* result carries the mapping as the call leaves it
generate_query_class(query_params, class_name) ==
    IF query_params = <<>> THEN [code |-> <<>>, query_params |-> query_params]
    ELSE LET query_content == PopEmptyKeys(query_params)
         IN  [code |-> ClassCode(class_name, FieldChunks(query_content),
                                 Keys(query_content), "toMap", Keys(query_content)),
              query_params |-> query_content]

\* for key in body_content: 'this.<key>' and the toJson entries take every key
BodyCtorKeys(body_content) == Keys(body_content)

\* the field loop skips the key ''
BodyFields(body_content) == FieldChunks(SelectSeq(body_content, LAMBDA kv : kv[1] # <<>>))

\* json.loads(body_raw): "JSONDecodeError", or the value
JsonLoads(body_raw) ==
    IF body_raw.kind = "invalid" THEN [raised |-> "JSONDecodeError", t |-> "", d |-> <<>>]
    ELSE IF body_raw.kind = "object"
         THEN [raised |-> "", t |-> "dict", d |-> DictFromPairs(body_raw.pairs)]
         ELSE [raised |-> "", t |-> "other", d |-> <<>>]

\* a variant without the try/except: the JSONDecodeError propagates
generate_body_class_Uncaught(body_raw, class_name) ==
    IF body_raw.kind = "empty" THEN [raised |-> "", code |-> <<>>]
    ELSE LET loaded == JsonLoads(body_raw)
         IN  IF loaded.raised # "" THEN [raised |-> loaded.raised, code |-> <<>>]
             ELSE IF loaded.t # "dict" THEN [raised |-> "AttributeError", code |-> <<>>]
             ELSE [raised |-> "",
                   code |-> ClassCode(class_name, BodyFields(loaded.d),
                                      BodyCtorKeys(loaded.d), "toJson", Keys(loaded.d))]

\* [raised, code]: .items() of a non-dict document raises AttributeError
generate_body_class(body_raw, class_name) ==
    IF body_raw.kind = "empty" THEN [raised |-> "", code |-> <<>>]
    ELSE LET loaded == JsonLoads(body_raw)
         IN  IF loaded.raised # "" THEN [raised |-> "", code |-> <<>>]
             ELSE IF loaded.t # "dict" THEN [raised |-> "AttributeError", code |-> <<>>]
             ELSE [raised |-> "",
                   code |-> ClassCode(class_name, BodyFields(loaded.d),
                                      BodyCtorKeys(loaded.d), "toJson", Keys(loaded.d))]

----------------------------------------------------------------------------
(* Request function generator.                                             *)
(*                                                                         *)
(* A request is [keys, method, url, header, body, auth]: keys the set of   *)
(* keys the request object has; url is [raw, path, query], query a list of *)
(* <<key, value>>; header a list of [key, value]; body is [raw]; auth is   *)
(* [type].                                                                 *)

Str_http == <<"h","t","t","p">>

Str_baseUrl == <<"b","a","s","e","U","r","l">>

Str_accessToken == <<"a","c","c","e","s","s","T","o","k","e","n">>

Str_query_params == <<"_","q","u","e","r","y","_","p","a","r","a","m","s">>

Str_body == <<"_","b","o","d","y">>

Str_QueryParams == <<"Q","u","e","r","y","P","a","r","a","m","s">>

Str_Body == <<"B","o","d","y">>

Str_dart == <<".","d","a","r","t">>

\* re.split(r'\?', url)[0]
UrlWithoutQuery(url) ==
    IF \E i \in 1..Len(url) : url[i] = "?"
    THEN SubSeq(url, 1, (CHOOSE i \in 1..Len(url) :
                            url[i] = "?" /\ \A k \in 1..(i - 1) : url[k] # "?") - 1)
    ELSE url

\* [a-zA-Z0-9.-]
IsHostChar(c) == IsAlnum(c) \/ c = "." \/ c = "-"

\* the end (exclusive) of the maximal run of host characters starting at i
HostRunEnd(s, i) ==
    LET stops == {j \in i..Len(s) : ~IsHostChar(s[j])}
    IN  IF stops = {} THEN Len(s) + 1 ELSE Min(stops)

\* the end (exclusive) of the maximal run of digits starting at i
DigitRunEnd(s, i) ==
    LET stops == {j \in i..Len(s) : ~IsDigit(s[j])}
    IN  IF stops = {} THEN Len(s) + 1 ELSE Min(stops)

\* re.match(r'^(https?://[a-zA-Z0-9.-]+(:[0-9]+)?)(/.*)?$', u):
\* [matched, base_url (group 1), endpoint (group 3 or '')]
BaseUrlMatch(u) ==
    LET noMatch == [matched |-> FALSE, base_url |-> <<>>, endpoint |-> <<>>]
        afterScheme == IF MatchAt(u, 1, Str_http \o <<"s", ":", "/", "/">>) THEN 9
                       ELSE IF MatchAt(u, 1, Str_http \o <<":", "/", "/">>) THEN 8
                       ELSE 0
    IN  IF afterScheme = 0 THEN noMatch
        ELSE LET hostEnd == HostRunEnd(u, afterScheme)
                 portEnd == IF hostEnd <= Len(u) /\ u[hostEnd] = ":"
                               /\ DigitRunEnd(u, hostEnd + 1) > hostEnd + 1
                            THEN DigitRunEnd(u, hostEnd + 1)
                            ELSE hostEnd
                 \* the port group backtracks to any shorter non-empty digit run, and
                 \* to nothing; only the whole run can be followed by '/' or the end
                 restOk(e) == e = Len(u) + 1 \/ u[e] = "/"
                 baseEnd == IF restOk(portEnd) THEN portEnd
                            ELSE IF restOk(hostEnd) THEN hostEnd ELSE 0
             IN  IF hostEnd = afterScheme \/ baseEnd = 0 THEN noMatch
                 ELSE [matched |-> TRUE,
                       base_url |-> SubSeq(u, 1, baseEnd - 1),
                       endpoint |-> SubSeq(u, baseEnd, Len(u))]

RECURSIVE replace_header_variables(_)
\* re.sub(r'\{\{(.*?)\}\}', '$' + lower_camel_case(group 1), value)
replace_header_variables(value) ==
    LET opens == {i \in 1..Len(value) :
                    MatchAt(value, i, <<"{", "{">>) /\ FirstMatch(value, i + 2, <<"}", "}">>) # 0}
    IN  IF opens = {} THEN value
        ELSE LET a == Min(opens)
                 c == FirstMatch(value, a + 2, <<"}", "}">>)
             IN  SubSeq(value, 1, a - 1) \o <<"$">>
                 \o lower_camel_case(SubSeq(value, a + 2, c - 1))
                 \o replace_header_variables(SubSeq(value, c + 2, Len(value)))

\* request.get('header', [])
HeadersOf(request) == IF "header" \in request.keys THEN request.header ELSE <<>>

\* the flattened extract_variables(header['value']) of the headers holding '{{'
HeaderVariables(headers) ==
    Concat([i \in 1..Len(headers) |->
              IF Contains(headers[i].value, <<"{", "{">>)
              THEN extract_variables(headers[i].value) ELSE <<>>])

Range(f) == {f[i] : i \in DOMAIN f}

\* a variant that leaves the inferred path parameters out of the union
VariableList_NoPathParameters(url_variables, header_variables, path_parameters) ==
    url_variables \o header_variables

\* the list handed to set(...)
VariableList(url_variables, header_variables, path_parameters) ==
    url_variables \o header_variables \o path_parameters

\* the orders in which iterating set(list) can yield its elements: the order of a
\* set of str depends on the process's hash seed
SetOrders(list) ==
    {f \in [1..Cardinality(Range(list)) -> Range(list)] : Range(f) = Range(list)}

Param(type, cls, name) == [type |-> type, cls |-> cls, name |-> name]

\* lower_camel_case(snake_case(request_name))
ArgStem(request_name) == lower_camel_case(snake_case(request_name))

HeaderEntries(headers) ==
    [i \in 1..Len(headers) |->
        IF Contains(headers[i].value, <<"{", "{">>)
        THEN [key |-> headers[i].key, value |-> replace_header_variables(headers[i].value),
              quoted |-> FALSE]
        ELSE [key |-> headers[i].key, value |-> headers[i].value, quoted |-> TRUE]]

\* `if auth and auth.get('type') == 'bearer'`
IsBearer(request) == "auth" \in request.keys /\ request.auth.type = "bearer"

Raised(err) ==
    [raised |-> err, dart_code |-> <<>>, folder_name |-> <<>>, filename |-> <<>>,
     query_params_class_code |-> <<>>, body_class_code |-> <<>>]

\* the body-class step: [raised, code]
BodyClassStep(request_name, request) ==
    IF "body" \in request.keys /\ request.body.raw.kind # "empty"
    THEN generate_body_class(request.body.raw, upper_camel_case(request_name \o Str_body))
    ELSE [raised |-> "", code |-> <<>>]

\* the query-class step: [code, query_params], query_params as the rest of the
\* function sees it
QueryClassStep(request_name, request) ==
    LET query_params == DictFromPairs(request.url.query)
    IN  IF query_params # <<>>
        THEN generate_query_class(query_params,
                                  upper_camel_case(request_name \o Str_query_params))
        ELSE [code |-> <<>>, query_params |-> query_params]

\* the variables of the signature, as the list handed to set(...)
AllVariables(request) ==
    LET m == BaseUrlMatch(UrlWithoutQuery(request.url.raw))
        dart_url == IF m.matched THEN <<"$">> \o Str_baseUrl \o m.endpoint
                    ELSE UrlWithoutQuery(request.url.raw)
        hp == handle_path_parameters(dart_url, request.url.path)
    IN  VariableList(extract_variables(hp.updated_url),
                     HeaderVariables(HeadersOf(request)), hp.path_variables)

\* a variant that reads the url with a default: only 'method' is required
MissingKeys_UrlOptional(request) == "method" \notin request.keys

\* request['method'] or request['url'] raises KeyError
MissingKeys(request) == "method" \notin request.keys \/ "url" \notin request.keys

\* order: the iteration order of all_variables in this execution
generate_dio_function(request_name, request, order) ==
    IF MissingKeys(request) THEN Raised("KeyError")
    ELSE
    LET method == Lower(request.method)
        headers == HeadersOf(request)
        url_without_query == UrlWithoutQuery(request.url.raw)
        m == BaseUrlMatch(url_without_query)
        dart_url0 == IF m.matched THEN <<"$">> \o Str_baseUrl \o m.endpoint
                     ELSE url_without_query
        hp == handle_path_parameters(dart_url0, request.url.path)
        dart_url == hp.updated_url
        q == QueryClassStep(request_name, request)
        query_params == q.query_params
        b == BodyClassStep(request_name, request)
        body_class_code == b.code
        folder_name == snake_case(request_name)
        dart_parameters ==
            [i \in 1..Len(order) |-> Param("String", <<>>, lower_camel_case(order[i]))]
            \o (IF m.matched THEN <<Param("String", <<>>, Str_baseUrl)>> ELSE <<>>)
            \o (IF query_params # <<>>
                THEN <<Param("class", upper_camel_case(request_name \o Str_query_params),
                             ArgStem(request_name) \o Str_QueryParams)>>
                ELSE <<>>)
            \o (IF body_class_code # <<>>
                THEN <<Param("class", upper_camel_case(request_name \o Str_body),
                             ArgStem(request_name) \o Str_Body)>>
                ELSE <<>>)
            \o (IF IsBearer(request) THEN <<Param("String", <<>>, Str_accessToken)>> ELSE <<>>)
        dart_code ==
            [imports |-> <<[kind |-> "dio", file |-> <<>>]>>
                 \o (IF query_params # <<>>
                     THEN <<[kind |-> "query",
                             file |-> folder_name \o Str_query_params \o Str_dart]>>
                     ELSE <<>>)
                 \o (IF body_class_code # <<>>
                     THEN <<[kind |-> "body", file |-> folder_name \o Str_body \o Str_dart]>>
                     ELSE <<>>),
             class_name |-> upper_camel_case(request_name),
             function_name |-> lower_camel_case(request_name),
             params |-> dart_parameters,
             has_headers |-> headers # <<>>,
             headers |-> HeaderEntries(headers),
             bearer |-> IsBearer(request),
             method |-> method,
             url |-> dart_url,
             queryParameters |-> IF query_params # <<>>
                                 THEN <<ArgStem(request_name) \o Str_QueryParams>> ELSE <<>>,
             data |-> IF body_class_code # <<>>
                      THEN <<ArgStem(request_name) \o Str_Body>> ELSE <<>>]
    IN  IF b.raised # "" THEN Raised(b.raised)
        ELSE [raised |-> "", dart_code |-> dart_code, folder_name |-> folder_name,
              filename |-> folder_name \o Str_dart,
              query_params_class_code |-> q.code, body_class_code |-> body_class_code]

\* the outcomes of generate_dio_function(request_name, request), one per
\* iteration order of all_variables
DioResults(request_name, request) ==
    {generate_dio_function(request_name, request, order) :
        order \in (IF MissingKeys(request) THEN {<<>>} ELSE SetOrders(AllVariables(request)))}

----------------------------------------------------------------------------
(* Bounds and the inputs drawn within them.                                *)

MaxPath == 3     \* longest url.path list of the path-inference runs

MaxPairs == 2    \* most key/value pairs of a mapping or JSON object

MaxRuns == 2     \* executions of one call that are compared

MaxLeaves == 3   \* most entries of a walked collection

\* all sequences over S of length at most n
SeqsUpTo(S, n) == UNION {[1..k -> S] : k \in 0..n}

Str_true == <<"t","r","u","e">>

Seg_hex == [i \in 1..HexMinLen |-> IF i % 2 = 1 THEN "a" ELSE "1"]

Segments == {<<"v","1">>, <<"1">>, <<"1","2">>, <<"u">>, Seg_hex}

\* $baseUrl (a matched base URL), h:12 (no scheme, so no match), {{b_u}}
UrlPrefixes == {<<"$">> \o Str_baseUrl, <<"h",":","1","2">>, <<"{","{","b","_","u","}","}">>}

\* prefix/seg/seg/...: the URL whose path list is path
UrlOf(prefix, path) == prefix \o Concat([i \in 1..Len(path) |-> <<"/">> \o path[i]])

SampleKeys == {<<>>, <<"a">>, <<"b">>}

SampleValues ==
    {Val("list", <<>>), Val("bool", <<>>), Val("int", <<>>), Val("float", <<>>),
     Val("null", <<>>), Val("dict", <<>>),
     Val("str", Str_true), Val("str", <<"1","0">>), Val("str", <<"1",".","5">>),
     Val("str", <<"1",".","2",".","3">>), Val("str", <<"x">>), Val("str", <<".">>),
     Val("str", <<>>)}

SamplePairs == SampleKeys \X SampleValues

DistinctKeys(pairs) == \A i, j \in 1..Len(pairs) : pairs[i][1] = pairs[j][1] => i = j

\* the mappings generate_query_class is run on
SampleMappings == {d \in SeqsUpTo(SamplePairs, MaxPairs) : DistinctKeys(d)}

Raw(kind, pairs) == [kind |-> kind, pairs |-> pairs]

\* the raw body texts generate_body_class is run on
SampleRaws ==
    {Raw("empty", <<>>), Raw("invalid", <<>>), Raw("other", <<>>)}
    \cup {Raw("object", ps) : ps \in SeqsUpTo(SamplePairs, MaxPairs)}

Name_GetUser == <<"G","e","t"," ","U","s","e","r">>

Name_get_user == <<"g","e","t","_","u","s","e","r">>

Name_Get__User == <<"G","e","t"," "," ","U","s","e","r">>

Url(raw, path, query) == [raw |-> raw, path |-> path, query |-> query]

\* http://h:80/u/12
Url_plain ==
    Url(Str_http \o <<":","/","/","h",":","8","0","/","u","/","1","2">>,
        <<<<"u">>, <<"1","2">>>>, <<>>)

\* {{b_u}}/v1/1?a=10
Url_query ==
    Url(<<"{","{","b","_","u","}","}","/","v","1","/","1","?","a","=","1","0">>,
        <<<<"v","1">>, <<"1">>>>, <<<<<<"a">>, Val("str", <<"1","0">>)>>>>)

\* http://h/u?=x : the only query pair has the empty key
Url_emptykey ==
    Url(Str_http \o <<":","/","/","h","/","u","?","=","x">>,
        <<<<"u">>>>, <<<<<<>>, Val("str", <<"x">>)>>>>)

\* {{h}}/u/7/x
Url_vars ==
    Url(<<"{","{","h","}","}","/","u","/","7","/","x">>, <<<<"u">>, <<"7">>, <<"x">>>>, <<>>)

SampleUrls == {Url_plain, Url_query, Url_emptykey, Url_vars}

\* X: B {{k}}
Header_vars == <<[key |-> <<"X">>, value |-> <<"B"," ","{","{","k","}","}">>]>>

Header_plain == <<[key |-> <<"A">>, value |-> <<"j">>]>>

SampleHeaders == {<<>>, Header_vars, Header_plain}

Raw_object == Raw("object", <<<<<<"a">>, Val("int", <<>>)>>>>)

Raw_emptyobject == Raw("object", <<>>)

Raw_invalid == Raw("invalid", <<>>)

Raw_other == Raw("other", <<>>)

SampleBodies == {Raw("empty", <<>>), Raw_object, Raw_emptyobject, Raw_invalid, Raw_other}

AllKeys == {"method", "url", "header", "body", "auth"}

Request(keys, url, header, raw, type) ==
    [keys |-> keys, method |-> <<"G","E","T">>, url |-> url, header |-> header,
     body |-> [raw |-> raw], auth |-> [type |-> type]]

\* the requests generate_dio_function is run on
SampleRequests ==
    {Request(keys, url, header, raw, type) :
        keys \in {AllKeys, AllKeys \ {"body", "auth", "header"}, AllKeys \ {"url"}},
        url \in SampleUrls, header \in SampleHeaders, raw \in SampleBodies,
        type \in {"bearer", "basic"}}

SampleCalls ==
    {[fn |-> "handle_path_parameters", prefix |-> prefix, url |-> UrlOf(prefix, path),
      path |-> path] :
        prefix \in UrlPrefixes, path \in SeqsUpTo(Segments, MaxPath)}
    \cup {[fn |-> "generate_query_class", query_params |-> d, class_name |-> <<"Q">>] :
        d \in SampleMappings}
    \cup {[fn |-> "generate_body_class", body_raw |-> r, class_name |-> <<"B">>] :
        r \in SampleRaws}

SampleGenCalls ==
    {[fn |-> "generate_dio_function", request_name |-> n, request |-> r] :
        n \in {Name_GetUser, Name_get_user}, r \in SampleRequests}

----------------------------------------------------------------------------
(* Runs of the pure functions: one call, executed up to MaxRuns times, each *)
(* execution a process of its own.                                         *)

WalkerIdle ==
    /\ collection = <<>>
    /\ pos = 0
    /\ status = "idle"
    /\ dirs = {}
    /\ files = <<>>
    /\ calls = <<>>
    /\ writes = <<>>

InitCalls ==
    /\ call \in SampleCalls
    /\ ret = <<>>
    /\ WalkerIdle

UnchangedWalker == UNCHANGED <<collection, pos, status, dirs, files, calls, writes>>

RunHandlePathParameters ==
    /\ call.fn = "handle_path_parameters"
    /\ Len(ret) < MaxRuns
    /\ ret' = Append(ret, handle_path_parameters(call.url, call.path))
    /\ UNCHANGED call
    /\ UnchangedWalker

RunGenerateQueryClass ==
    /\ call.fn = "generate_query_class"
    /\ Len(ret) < MaxRuns
    /\ ret' = Append(ret, generate_query_class(call.query_params, call.class_name))
    /\ UNCHANGED call
    /\ UnchangedWalker

RunGenerateBodyClass ==
    /\ call.fn = "generate_body_class"
    /\ Len(ret) < MaxRuns
    /\ ret' = Append(ret, generate_body_class(call.body_raw, call.class_name))
    /\ UNCHANGED call
    /\ UnchangedWalker

RunGenerateDioFunction ==
    /\ call.fn = "generate_dio_function"
    /\ Len(ret) < MaxRuns
    /\ \E res \in DioResults(call.request_name, call.request) : ret' = Append(ret, res)
    /\ UNCHANGED call
    /\ UnchangedWalker

NextCalls ==
    \/ RunHandlePathParameters
    \/ RunGenerateQueryClass
    \/ RunGenerateBodyClass

SpecCalls == InitCalls /\ [][NextCalls]_vars

InitGen ==
    /\ call \in SampleGenCalls
    /\ ret = <<>>
    /\ WalkerIdle

NextGen == RunGenerateDioFunction

SpecGen == InitGen /\ [][NextGen]_vars

----------------------------------------------------------------------------
(* Collection walker.                                                      *)
(*                                                                         *)
(* An entry of an item list is [keys, name, request, item]: keys the keys  *)
(* the entry has.  A file path is <<folder_name, file name>> below         *)
(* output_dir; the output root is the directory <<>>.                      *)

Entry(keys, name, request, item) ==
    [keys |-> keys, name |-> name, request |-> request, item |-> item]

NoRequest == Request({}, Url(<<>>, <<>>, <<>>), <<>>, Raw("empty", <<>>), "")

Leaf(name, request) == Entry({"name", "request"}, name, request, <<>>)

Folder(name, item) == Entry({"name", "item"}, name, NoRequest, item)

\* the entries the innermost loops reach, in document order, with the nesting
\* level of the loop that reaches them
VisitsOfSubitem(subitem) ==
    IF "item" \in subitem.keys
    THEN [k \in 1..Len(subitem.item) |-> [level |-> 3, entry |-> subitem.item[k]]]
    ELSE <<[level |-> 2, entry |-> subitem]>>

VisitsOfItem(item) ==
    IF "item" \in item.keys
    THEN Concat([j \in 1..Len(item.item) |-> VisitsOfSubitem(item.item[j])])
    ELSE <<[level |-> 1, entry |-> item]>>

Visits(coll) == Concat([i \in 1..Len(coll) |-> VisitsOfItem(coll[i])])

OutputRoot == <<>>

\* a variant that writes the _body file whether or not there is a body class
WrittenPaths_AlwaysBody(res) ==
    {<<res.folder_name, res.filename>>}
    \cup (IF res.query_params_class_code # <<>>
          THEN {<<res.folder_name, res.folder_name \o Str_query_params \o Str_dart>>} ELSE {})
    \cup {<<res.folder_name, res.folder_name \o Str_body \o Str_dart>>}

\* the paths one leaf's block opens for writing
WrittenPaths(res) ==
    {<<res.folder_name, res.filename>>}
    \cup (IF res.query_params_class_code # <<>>
          THEN {<<res.folder_name, res.folder_name \o Str_query_params \o Str_dart>>} ELSE {})
    \cup (IF res.body_class_code # <<>>
          THEN {<<res.folder_name, res.folder_name \o Str_body \o Str_dart>>} ELSE {})

\* a variant that opens for appending: an existing file keeps its old text
WriteFiles_KeepExisting(fs, res) ==
    [path \in DOMAIN fs \cup {<<res.folder_name, res.filename>>}
                       \cup (IF res.query_params_class_code # <<>>
                             THEN {<<res.folder_name,
                                     res.folder_name \o Str_query_params \o Str_dart>>}
                             ELSE {})
                       \cup (IF res.body_class_code # <<>>
                             THEN {<<res.folder_name, res.folder_name \o Str_body \o Str_dart>>}
                             ELSE {}) |->
        IF path \in DOMAIN fs THEN fs[path]
        ELSE IF path[2] = res.filename THEN res.dart_code
        ELSE IF path[2] = res.folder_name \o Str_query_params \o Str_dart
             THEN res.query_params_class_code
             ELSE res.body_class_code]

\* what open(path, 'w').write(...) leaves in the file
WrittenContent(res, path) ==
    IF path[2] = res.filename THEN res.dart_code
    ELSE IF path[2] = res.folder_name \o Str_query_params \o Str_dart
         THEN res.query_params_class_code
         ELSE res.body_class_code

\* the file system after one leaf's writes: a written path holds the new text,
\* every other path what it held
WriteFiles(fs, res) ==
    [path \in DOMAIN fs \cup WrittenPaths(res) |->
        IF path \in WrittenPaths(res) THEN WrittenContent(res, path) ELSE fs[path]]

----------------------------------------------------------------------------
(* The collections walked.                                                 *)

Name_Login == <<"L","o","g","i","n">>

Name_Bad == <<"B","a","d">>

Entry_full == Leaf(Name_GetUser, Request(AllKeys, Url_query, Header_plain, Raw_object, "bearer"))

Entry_plain ==
    Leaf(Name_get_user,
         Request(AllKeys \ {"header", "body", "auth"}, Url_plain, <<>>, Raw("empty", <<>>), ""))

Entry_emptykey ==
    Leaf(Name_Get__User,
         Request(AllKeys \ {"header", "auth"}, Url_emptykey, <<>>, Raw_emptyobject, ""))

Entry_badjson ==
    Leaf(Name_Login, Request(AllKeys \ {"auth"}, Url_plain, Header_vars, Raw_invalid, ""))

Entry_nourl == Leaf(Name_Bad, Request(AllKeys \ {"url"}, Url_plain, <<>>, Raw_object, "basic"))

Entry_nomethod ==
    Leaf(Name_Bad, Request(AllKeys \ {"method"}, Url_plain, <<>>, Raw_object, "basic"))

Entry_array == Leaf(Name_Login, Request(AllKeys \ {"auth"}, Url_plain, <<>>, Raw_other, ""))

\* a folder with no entries: at the third level, an entry without 'request'
Entry_folder == Folder(Name_Bad, <<>>)

SampleEntries ==
    {Entry_full, Entry_plain, Entry_emptykey, Entry_badjson, Entry_nourl, Entry_nomethod,
     Entry_array, Entry_folder}

Place(entry, levels) == {[entry |-> entry, level |-> l] : l \in levels}

\* a leaf to place: the entry and the nesting level it goes to
Placements ==
    Place(Entry_full, 1..3) \cup Place(Entry_plain, 1..3) \cup Place(Entry_emptykey, 2..3)
    \cup Place(Entry_badjson, {1, 3}) \cup Place(Entry_nourl, {1, 3})
    \cup Place(Entry_nomethod, {2}) \cup Place(Entry_array, {2}) \cup Place(Entry_folder, {1, 3})

\* the length of the longest prefix of ps whose levels are all >= l
RunLen(ps, l) ==
    LET stops == {k \in 1..Len(ps) : ps[k].level < l}
    IN  IF stops = {} THEN Len(ps) ELSE Min(stops) - 1

RECURSIVE BuildItems(_, _)
\* the item list at nesting level l holding the placed entries in order: entries
\* of level l directly, each maximal run of deeper ones in one folder
BuildItems(ps, l) ==
    IF ps = <<>> THEN <<>>
    ELSE IF ps[1].level <= l
         THEN <<ps[1].entry>> \o BuildItems(Tail(ps), l)
         ELSE <<Folder(<<"F">>, BuildItems(SubSeq(ps, 1, RunLen(ps, l + 1)), l + 1))>>
              \o BuildItems(SubSeq(ps, RunLen(ps, l + 1) + 1, Len(ps)), l)

SampleCollections == {BuildItems(ps, 1) : ps \in SeqsUpTo(Placements, MaxLeaves)}

\* request_name as the block of nesting level l passes it:
\* subsubitem['name'].replace('  ', ' ') at the third level
RequestNameAt(l, name) == IF l = 3 THEN Replace(name, <<" ", " ">>, <<" ">>) ELSE name

\* DioResults over the calls the sample collections can make, computed once
DioResultsTable ==
    [in \in {<<RequestNameAt(l, e.name), e.request>> : e \in SampleEntries, l \in 1..3} |->
        DioResults(in[1], in[2])]

Crash ==
    /\ status' = "crashed"
    /\ UNCHANGED <<pos, dirs, files, writes>>

\* the body of one leaf block: name and request lookups, the call, the writes
ProcessLeaf(entry, request_name) ==
    IF "request" \notin entry.keys
    THEN Crash /\ UNCHANGED calls
    ELSE \E res \in DioResultsTable[<<request_name, entry.request>>] :
            /\ calls' = Append(calls, [request_name |-> request_name, res |-> res])
            /\ IF res.raised # ""
               THEN Crash
               ELSE /\ dirs' = dirs \cup {<<res.folder_name>>}
                    /\ files' = WriteFiles(files, res)
                    /\ writes' = Append(writes, WrittenPaths(res))
                    /\ pos' = pos + 1
                    /\ UNCHANGED status

UnchangedCalls == UNCHANGED <<call, ret, collection>>

\* os.makedirs(output_dir) when it does not exist
Start ==
    /\ status = "init"
    /\ dirs' = dirs \cup {OutputRoot}
    /\ status' = "walking"
    /\ UNCHANGED <<pos, files, calls, writes>>
    /\ UnchangedCalls

VisitLevel1 ==
    /\ status = "walking"
    /\ pos < Len(Visits(collection))
    /\ Visits(collection)[pos + 1].level = 1
    /\ ProcessLeaf(Visits(collection)[pos + 1].entry,
                   RequestNameAt(1, Visits(collection)[pos + 1].entry.name))
    /\ UnchangedCalls

VisitLevel2 ==
    /\ status = "walking"
    /\ pos < Len(Visits(collection))
    /\ Visits(collection)[pos + 1].level = 2
    /\ ProcessLeaf(Visits(collection)[pos + 1].entry,
                   RequestNameAt(2, Visits(collection)[pos + 1].entry.name))
    /\ UnchangedCalls

VisitLevel3 ==
    /\ status = "walking"
    /\ pos < Len(Visits(collection))
    /\ Visits(collection)[pos + 1].level = 3
    /\ ProcessLeaf(Visits(collection)[pos + 1].entry,
                   RequestNameAt(3, Visits(collection)[pos + 1].entry.name))
    /\ UnchangedCalls

\* the outer loop is exhausted
Finish ==
    /\ status = "walking"
    /\ pos = Len(Visits(collection))
    /\ status' = "done"
    /\ UNCHANGED <<pos, dirs, files, calls, writes>>
    /\ UnchangedCalls

Next ==
    \/ Start
    \/ VisitLevel1
    \/ VisitLevel2
    \/ VisitLevel3
    \/ Finish

----------------------------------------------------------------------------
Init ==
    /\ collection \in SampleCollections
    /\ pos = 0
    /\ status = "init"
    /\ dirs = {}
    /\ files = <<>>
    /\ calls = <<>>
    /\ writes = <<>>
    /\ call = [fn |-> "process_postman_collection"]
    /\ ret = <<>>

Spec == Init /\ [][Next]_vars

----------------------------------------------------------------------------
(* Properties of the walker.                                               *)

FunctionPath(folder) == <<folder, folder \o Str_dart>>

QueryPath(folder) == <<folder, folder \o Str_query_params \o Str_dart>>

BodyPath(folder) == <<folder, folder \o Str_body \o Str_dart>>

\* a leaf entry that raises KeyError: no 'request', or a request without
\* 'method' or 'url'
Malformed(entry) ==
    \/ "request" \notin entry.keys
    \/ "method" \notin entry.request.keys
    \/ "url" \notin entry.request.keys

\* a leaf whose body.raw is non-empty text that is not JSON
HasBadJsonBody(entry) ==
    /\ ~Malformed(entry)
    /\ "body" \in entry.request.keys
    /\ entry.request.body.raw.kind = "invalid"

\* a well-formed request has its method and url, and a body that, when it is JSON
\* at all, is a JSON object (the key/value mapping the body class is made from)
WellFormed(entry) ==
    /\ ~Malformed(entry)
    /\ "body" \in entry.request.keys => entry.request.body.raw.kind # "other"

AllWellFormed == \A i \in 1..Len(Visits(collection)) : WellFormed(Visits(collection)[i].entry)

HasParamNamed(res, name) == \E k \in 1..Len(res.dart_code.params) : res.dart_code.params[k].name = name

HasImport(res, kind) == \E k \in 1..Len(res.dart_code.imports) : res.dart_code.imports[k].kind = kind

\* the last leaf that wrote path
LastWriter(path) == CHOOSE i \in 1..Len(writes) :
                        path \in writes[i] /\ \A j \in (i + 1)..Len(writes) : path \notin writes[j]

C2_BadJsonBodyIsSkipped ==
    \A i \in 1..Len(calls) :
        LET entry == Visits(collection)[i].entry
            res == calls[i].res
            folder == snake_case(entry.name)
        IN  HasBadJsonBody(entry) =>
                /\ res.raised = ""
                /\ res.body_class_code = <<>>
                /\ ~HasParamNamed(res, ArgStem(entry.name) \o Str_Body)
                /\ ~HasImport(res, "body")
                /\ res.dart_code.data = <<>>
                /\ i <= pos
                /\ FunctionPath(folder) \in writes[i]
                /\ BodyPath(folder) \notin writes[i]
                /\ files[FunctionPath(folder)] = calls[LastWriter(FunctionPath(folder))].res.dart_code
                /\ status = "done" => Len(calls) = Len(Visits(collection))

\* a finished walk that visited a leaf with a non-JSON body and a leaf after it
C2_Witness ==
    /\ status = "done"
    /\ \E i \in 1..Len(calls) : i < Len(calls) /\ HasBadJsonBody(Visits(collection)[i].entry)

\* C3: when the walker reaches a leaf without 'request', or whose request lacks
\* 'method' or 'url', that step ends the run and writes nothing: directories,
\* files and the count of finished leaves stay as they were, and no step follows.
C3_MalformedLeafEndsTheRun ==
    [][/\ status # "crashed"
       /\ (status = "walking" /\ pos < Len(Visits(collection))
             /\ Malformed(Visits(collection)[pos + 1].entry))
          => (status' = "crashed" /\ files' = files /\ dirs' = dirs
                /\ writes' = writes /\ pos' = pos)]_vars

\* the run has ended at a malformed leaf that has a written leaf before it and an
\* unvisited leaf after it
C3_Witness ==
    /\ status = "crashed"
    /\ pos >= 1
    /\ pos + 1 < Len(Visits(collection))
    /\ Malformed(Visits(collection)[pos + 1].entry)
    /\ DOMAIN files # {}

\* C9 as claimed: after the run, a folder shared by several requests holds exactly
\* the files the last-visited of them wrote.
C9_FolderHoldsOnlyLastRequestsFiles ==
    status = "done" =>
        \A i \in 1..Len(writes) :
            LET folder == calls[i].res.folder_name
                last == CHOOSE j \in i..Len(writes) :
                            /\ calls[j].res.folder_name = folder
                            /\ \A k \in (j + 1)..Len(writes) : calls[k].res.folder_name # folder
            IN  {path \in DOMAIN files : path[1] = folder} = writes[last]

\* C9 as amended: every file holds the text of the last-visited request that wrote
\* it: the function file of a shared folder is the last-visited request's, and a
\* _query_params or _body file is that of the last request that produced one (a
\* file of an earlier request that no later one rewrites stays).
C9_EachFileHoldsItsLastWriter ==
    /\ DOMAIN files = UNION {writes[i] : i \in 1..Len(writes)}
    /\ \A path \in DOMAIN files :
         LET res == calls[LastWriter(path)].res
         IN  /\ path[1] = res.folder_name
             /\ path = FunctionPath(path[1]) => files[path] = res.dart_code
             /\ path = QueryPath(path[1]) => files[path] = res.query_params_class_code
             /\ path = BodyPath(path[1]) => files[path] = res.body_class_code

\* a finished walk in which two leaves with different names shared a folder and
\* the earlier one wrote a file the later one did not
C9_Witness ==
    /\ status = "done"
    /\ \E i, j \in 1..Len(writes) :
         /\ i < j
         /\ calls[i].res.folder_name = calls[j].res.folder_name
         /\ calls[i].request_name # calls[j].request_name
         /\ writes[i] \ writes[j] # {}
         /\ \A k \in (j + 1)..Len(writes) : calls[k].res.folder_name # calls[j].res.folder_name

----------------------------------------------------------------------------
(* Properties of the pure functions.                                       *)

\* the URL the claim expects: every dynamic segment replaced by its own
\* parameter, every other segment and the prefix as they were
ExpectedUrl(prefix, path) ==
    prefix \o Concat([k \in 1..Len(path) |->
                        <<"/">> \o (IF IsHexId(path[k]) \/ IsAllDigits(path[k])
                                   THEN <<"$">> \o ParamName(k - 1, Len(path))
                                   ELSE path[k])])

\* one name per dynamic segment, in segment order
ExpectedPathVariables(path) ==
    LET dyn == SelectSeq([k \in 1..Len(path) |-> k],
                         LAMBDA k : IsHexId(path[k]) \/ IsAllDigits(path[k]))
    IN  [n \in 1..Len(dyn) |-> ParamName(dyn[n] - 1, Len(path))]

\* C4 as claimed: handle_path_parameters changes the URL only at the dynamic
\* segments ($id for the final one, $param<index> otherwise), leaves every other
\* segment and the rest of the URL as in the input, and returns one name per
\* dynamic segment in segment order.
C4_OnlyDynamicSegmentsChange ==
    call.fn = "handle_path_parameters" =>
        \A r \in 1..Len(ret) :
            /\ ret[r].updated_url = ExpectedUrl(call.prefix, call.path)
            /\ ret[r].path_variables = ExpectedPathVariables(call.path)

CountOf(s, c) == Cardinality({i \in 1..Len(s) : s[i] = c})

\* the type the claim gives a value
ClaimedType(value) ==
    IF value.t = "list" THEN "final List<dynamic>?"
    ELSE IF value.t = "bool" THEN "final bool?"
    ELSE IF value.t = "int" THEN "final int?"
    ELSE IF value.t = "float" THEN "final double?"
    ELSE IF value.t = "str" THEN
        IF value.s = Str_true \/ value.s = <<"f","a","l","s","e">> THEN "final bool?"
        ELSE IF IsAllDigits(value.s) THEN "final int?"
        ELSE IF /\ CountOf(value.s, ".") = 1
                /\ Len(value.s) > 1
                /\ \A i \in 1..Len(value.s) : IsDigit(value.s[i]) \/ value.s[i] = "."
             THEN "final double?"
        ELSE "final String?"
    ELSE "dynamic"

\* the mapping a class-generator call works on
InputMapping ==
    IF call.fn = "generate_query_class" THEN call.query_params
    ELSE IF call.fn = "generate_body_class" /\ call.body_raw.kind = "object"
         THEN DictFromPairs(call.body_raw.pairs)
         ELSE <<>>

ValueOf(d, k) == d[CHOOSE i \in 1..Len(d) : d[i][1] = k][2]

IsClassCall == call.fn \in {"generate_query_class", "generate_body_class"}

KeysOfKind(code, kind) ==
    LET sel == SelectSeq(code, LAMBDA ch : ch.kind = kind)
    IN  [i \in 1..Len(sel) |-> sel[i].name]

CtorKeys(code) == SelectSeq(code, LAMBDA ch : ch.kind = "ctor")[1].keys

\* C5 as claimed: in both generators the type of every field follows the
\* precedence list > bool > int > float > string ("true"/"false" -> bool, only
\* digits -> int, digits and a single dot -> double, any other string, also one
\* with two or more dots -> String) > dynamic.
C5_FieldTypeFollowsThePrecedence ==
    IsClassCall =>
        \A r \in 1..Len(ret) : \A c \in 1..Len(ret[r].code) :
            ret[r].code[c].kind = "field" =>
                ret[r].code[c].type = ClaimedType(ValueOf(InputMapping, ret[r].code[c].name))

\* C7 as claimed: in the class text of both generators the keys with a field, the
\* keys named in the constructor and the keys of the serialization method are
\* all the mapping's keys without the empty key, in the mapping's order.
C7_EmptyKeyIsDroppedEverywhere ==
    IsClassCall =>
        \A r \in 1..Len(ret) :
            ret[r].code # <<>> =>
                LET kept == SelectSeq(Keys(InputMapping), LAMBDA k : k # <<>>)
                IN  /\ KeysOfKind(ret[r].code, "field") = kept
                    /\ CtorKeys(ret[r].code) = kept
                    /\ KeysOfKind(ret[r].code, "entry") = kept

\* C8 as claimed: both generators return '' when the key/value mapping is empty:
\* generate_query_class on an empty mapping, generate_body_class on a raw text
\* that parses to the empty object.
C8_EmptyMappingGivesEmptyText ==
    /\ (call.fn = "generate_query_class" /\ call.query_params = <<>>)
         => \A r \in 1..Len(ret) : ret[r].code = <<>>
    /\ (call.fn = "generate_body_class" /\ call.body_raw.kind = "object"
          /\ call.body_raw.pairs = <<>>)
         => \A r \in 1..Len(ret) : ret[r].code = <<>>

HasParam(res, param) == \E k \in 1..Len(res.dart_code.params) : res.dart_code.params[k] = param

HasClassParam(res, cls) ==
    \E k \in 1..Len(res.dart_code.params) :
        res.dart_code.params[k].type = "class" /\ res.dart_code.params[k].cls = cls

\* C6 as claimed: the parameter list has `required String baseUrl` exactly when
\* the raw URL matched the scheme+host(+port) pattern, a query-class parameter
\* exactly when the URL has a query pair (which is when a query class is
\* generated), a body-class parameter exactly when the body-class text is
\* non-empty, and `required String accessToken` exactly when auth.type is bearer.
C6_ConditionalParameters ==
    \A r \in 1..Len(ret) :
        ret[r].raised = "" =>
            LET res == ret[r]
                request == call.request
            IN  /\ HasParam(res, Param("String", <<>>, Str_baseUrl))
                     <=> BaseUrlMatch(UrlWithoutQuery(request.url.raw)).matched
                /\ HasClassParam(res, upper_camel_case(call.request_name \o Str_query_params))
                     <=> Len(request.url.query) >= 1
                /\ res.query_params_class_code # <<>> <=> Len(request.url.query) >= 1
                /\ HasClassParam(res, upper_camel_case(call.request_name \o Str_body))
                     <=> res.body_class_code # <<>>
                /\ HasParam(res, Param("String", <<>>, Str_accessToken))
                     <=> ("auth" \in request.keys /\ request.auth.type = "bearer")

\* C10 as claimed: for a fixed request name and request, every execution of
\* generate_dio_function returns the same texts.
C10_EveryExecutionReturnsTheSameText ==
    \A r1, r2 \in 1..Len(ret) : ret[r1] = ret[r2]

\* the variables of the signature, de-duplicated: URL placeholders (after path
\* inference), header placeholders, inferred path-parameter names
ExpectedVariables(request) ==
    LET u == UrlWithoutQuery(request.url.raw)
        m == BaseUrlMatch(u)
        hp == handle_path_parameters(IF m.matched THEN <<"$">> \o Str_baseUrl \o m.endpoint ELSE u,
                                     request.url.path)
    IN  Range(extract_variables(hp.updated_url))
        \cup UNION {Range(extract_variables(HeadersOf(request)[h].value)) :
                      h \in 1..Len(HeadersOf(request))}
        \cup Range(hp.path_variables)

\* the function text with the variable parameters taken out
WithoutVariableParams(res, n) ==
    [res EXCEPT !.dart_code.params = SubSeq(res.dart_code.params, n + 1,
                                            Len(res.dart_code.params))]

\* C10 as amended: two executions return the same texts except for the order of
\* the `required String <var>` parameters of the variable union: both emit one
\* such parameter per distinct variable, the same ones, before the same further
\* parameters; with at most one distinct variable the texts are identical.
C10_SameTextUpToVariableOrder ==
    \A r1, r2 \in 1..Len(ret) :
        ret[r1].raised = "" =>
            LET n == Cardinality(ExpectedVariables(call.request))
                expected == {Param("String", <<>>, lower_camel_case(v)) :
                                v \in ExpectedVariables(call.request)}
            IN  /\ ret[r2].raised = ""
                /\ Len(ret[r1].dart_code.params) >= n
                /\ Range(SubSeq(ret[r1].dart_code.params, 1, n)) = expected
                /\ Range(SubSeq(ret[r2].dart_code.params, 1, n)) = expected
                /\ WithoutVariableParams(ret[r1], n) = WithoutVariableParams(ret[r2], n)
                /\ n <= 1 => ret[r1] = ret[r2]

\* two executions of one call whose texts differ only in the parameter order
C10_Witness ==
    /\ Len(ret) = 2
    /\ ret[1].raised = ""
    /\ ret[1] # ret[2]
    /\ Cardinality(ExpectedVariables(call.request)) >= 2

====
